---- MODULE Spec2Model ----
(***************************************************************************)
(* Model of src/utils/update-events.py: the script that fetches scheduled  *)
(* Discord events, merges them into the events.md document stored on       *)
(* GitHub and writes the regenerated document back.                        *)
(*                                                                         *)
(* Text is modelled line by line.  A Python string is the sequence of the  *)
(* lines obtained by splitting it at "\n" (so the empty string is the      *)
(* one-line text <<Blank>>, and a text that ends with "\n" has Blank as    *)
(* its last line).  A line is a record [k, v]: k says how the regular      *)
(* expressions of parse_markdown classify the line, v is the rest of it.   *)
(*   "h1"    "# " v            "h2"   "## " v                              *)
(*   "id"    "ID: " v          "date" "Date: " v                           *)
(*   "desc"  "Description:"    "loc"  "Location: " v                       *)
(*   "fence" "---"             "pub"  "publishDate: " v                    *)
(*   "blank" ""                "text" v (any other non-empty line)         *)
(* An event's name is a one-line string, so it is a line as well: the name *)
(* "## Alpha" is [k |-> "h2", v |-> "Alpha"], the name "Meetup" is         *)
(* [k |-> "text", v |-> "Meetup"].  A description is a sequence of lines.  *)
(***************************************************************************)
EXTENDS Integers, Sequences, FiniteSets, TLC

VARIABLES
    today,              \* datetime.now().date(), as a day number
    \* ---- one call of each pure function (specification SpecMerge) ----
    phase,              \* "input" | "fetched" | "merged" | "reparsed" | "crashed"
    response,           \* what the scheduled-events request yields
    new_events,         \* fetch_discord_events's result
    stored_upcoming,    \* parse_markdown's upcoming_events
    stored_past,        \* parse_markdown's past_events
    all_events,         \* merge_and_generate_markdown's all_events (insertion-ordered)
    updated_content,    \* merge_and_generate_markdown's result
    reparsed,           \* parse_markdown(updated_content)
    \* ---- the runs of main against the repository (specification Spec) ----
    remote,             \* the file on GitHub: [content, sha]
    pc,                 \* per run: position in main
    run,                \* per run: locals of main
    hist                \* history: what the runs did

vars == <<today, phase, response, new_events, stored_upcoming, stored_past,
          all_events, updated_content, reparsed, remote, pc, run, hist>>

pureVars == <<phase, response, new_events, stored_upcoming, stored_past,
              all_events, updated_content, reparsed>>
mainVars == <<remote, pc, run, hist>>

----------------------------------------------------------------------------
(* Bounds *)

MaxStored == 2      \* stored events in the two sections together
MaxFetched == 2     \* entries in one scheduled-events response
MaxDay == 2         \* latest day on which the functions are called
MaxRuns == 2        \* runs of main per process

----------------------------------------------------------------------------
(* Lines *)

Line(k, v) == [k |-> k, v |-> v]
Blank == Line("blank", "")
Fence == Line("fence", "---")
DescLabel == Line("desc", "")
Heading(t) == Line("h1", t)
Text(v) == Line("text", v)

\* the "#" that ends a section in upcoming_pattern / past_pattern
StartsWithHash(l) == l.k \in {"h1", "h2"}

\* str.strip() on the strings of the model
Strip(s) ==
    CASE s = " Meetup " -> "Meetup"
      [] s = "talk " -> "talk"
      [] OTHER -> s

StripLine(l) == Line(l.k, Strip(l.v))

\* date.strftime("%b %d, %Y"), by day number
DateStr == <<"Jan 01, 2024", "Jan 02, 2024", "Jan 03, 2024",
             "Jan 04, 2024", "Jan 05, 2024", "Jan 06, 2024">>

FormatDate(d) == DateStr[d + 1]

\* datetime.strptime(date_str, "%b %d, %Y").date(); ValueError otherwise
ParseDate(s) ==
    IF \E i \in DOMAIN DateStr : DateStr[i] = s
    THEN [ok |-> TRUE, date |-> (CHOOSE i \in DOMAIN DateStr : DateStr[i] = s) - 1]
    ELSE [ok |-> FALSE, date |-> 0]

\* datetime.utcnow().strftime("%Y-%m-%dT%H:%M:%SZ")
StampStr == <<"2024-01-01T00:00:00Z", "2024-01-02T00:00:00Z", "2024-01-03T00:00:00Z",
              "2024-01-04T00:00:00Z", "2024-01-05T00:00:00Z", "2024-01-06T00:00:00Z">>

Stamp(d) == StampStr[d + 1]

\* variant: an event dated today counts as past
SectionOfStrict(date, day) == IF date > day THEN "upcoming" ELSE "past"

SectionOf(date, day) == IF date >= day THEN "upcoming" ELSE "past"

Event(id, name, date, description, location, section) ==
    [id |-> id, name |-> name, date |-> date, description |-> description,
     location |-> location, section |-> section]

----------------------------------------------------------------------------
(* process_discord_events / fetch_discord_events *)

NoneValue == "<None>"

\* an entry of the scheduled-events response
RawEvent(id, status, name, day, description, channel_id) ==
    [id |-> id, status |-> status, name |-> name, day |-> day,
     description |-> description, channel_id |-> channel_id]

\* fetch_discord_channel_name: the channel's name, or "Unknown Channel" when
\* the lookup fails (chanOk = FALSE)
fetch_discord_channel_name(channel_id, chanOk) ==
    IF chanOk /\ channel_id = "c1" THEN "general" ELSE "Unknown Channel"

\* a description that is None (a string has at least one line)
NoDescription == <<>>

\* event["description"].strip() raises AttributeError on None
Raises(event) == event.status = 1 /\ event.description = NoDescription

StripDescription(d) == [i \in DOMAIN d |-> StripLine(d[i])]

Structured(event, chanOk, day) ==
    Event(event.id,
          StripLine(event.name),
          event.day,
          StripDescription(event.description),
          IF event.channel_id # NoneValue
             THEN fetch_discord_channel_name(event.channel_id, chanOk)
             ELSE "No location",
          SectionOf(event.day, day))

RECURSIVE process_discord_events(_, _, _)
process_discord_events(events, chanOk, day) ==
    IF events = <<>> THEN [ok |-> TRUE, events |-> <<>>]
    ELSE LET event == Head(events)
             rest == process_discord_events(Tail(events), chanOk, day)
         IN  IF event.status = 1
             THEN IF Raises(event) \/ ~rest.ok
                  THEN [ok |-> FALSE, events |-> <<>>]
                  ELSE [ok |-> TRUE, events |-> <<Structured(event, chanOk, day)>> \o rest.events]
             ELSE rest

\* ~resp.ok: requests.RequestException, caught, [] returned.
\* A result with ok = FALSE: an exception that is not a RequestException
\* leaves the function.
fetch_discord_events(resp, chanOk, day) ==
    IF ~resp.ok THEN [ok |-> TRUE, events |-> <<>>]
    ELSE process_discord_events(resp.events, chanOk, day)

----------------------------------------------------------------------------
(* parse_markdown *)

Min(S) == CHOOSE x \in S : \A y \in S : x <= y

\* re.sub(r"publishDate:.*", f"publishDate: {current_datetime}", frontmatter)
SubPublishDate(fm, day) ==
    [i \in DOMAIN fm |-> IF fm[i].k = "pub" THEN Line("pub", Stamp(day)) ELSE fm[i]]

\* re.search(r"# <title>\n\n(.*?)(\n\n#|$)", events_content, re.DOTALL):
\* the lines of group(1), or no match
SectionSearch(ec, title) ==
    LET n == Len(ec)
        starts == {i \in 1..(n - 2) : ec[i] = Heading(title) /\ ec[i + 1] = Blank}
    IN  IF starts = {} THEN [ok |-> FALSE, lines |-> <<>>]
        ELSE LET i == Min(starts)
                 ends == {k \in (i + 2)..n :
                            \/ k = n
                            \/ k = n - 1 /\ ec[n] = Blank
                            \/ k + 2 <= n /\ ec[k + 1] = Blank /\ StartsWithHash(ec[k + 2])}
             IN  [ok |-> TRUE, lines |-> SubSeq(ec, i + 2, Min(ends))]

\* the greedy ([^\n]+(?:\n\n[^\n]+)*) that starts with line j: its last line
RECURSIVE DescEnd(_, _)
DescEnd(c, j) ==
    IF j + 2 <= Len(c) /\ c[j + 1] = Blank /\ c[j + 2] # Blank
    THEN DescEnd(c, j + 2)
    ELSE j

\* event_pattern matches with its "## " at line s
MatchAt(c, s) ==
    /\ s + 5 <= Len(c)
    /\ c[s].k = "h2"
    /\ c[s + 1].k = "id"
    /\ c[s + 2].k = "date"
    /\ c[s + 3] = DescLabel
    /\ c[s + 4] # Blank
    /\ DescEnd(c, s + 4) + 1 <= Len(c)
    /\ c[DescEnd(c, s + 4) + 1].k = "loc"

\* re.findall(event_pattern, c, re.DOTALL), scanning from line p
RECURSIVE FindAll(_, _)
FindAll(c, p) ==
    IF p > Len(c) THEN <<>>
    ELSE IF MatchAt(c, p)
         THEN LET e == DescEnd(c, p + 4)
              IN  <<[name |-> c[p], event_id |-> c[p + 1].v, date_str |-> c[p + 2].v,
                     description |-> SubSeq(c, p + 4, e), location |-> c[e + 1].v]>>
                  \o FindAll(c, e + 2)
         ELSE FindAll(c, p + 1)

\* process_events(matches, section) inside parse_markdown
RECURSIVE process_events(_, _)
process_events(matches, section) ==
    IF matches = <<>> THEN [ok |-> TRUE, events |-> <<>>]
    ELSE LET match == Head(matches)
             d == ParseDate(match.date_str)
             rest == process_events(Tail(matches), section)
         IN  IF ~d.ok \/ ~rest.ok
             THEN [ok |-> FALSE, events |-> <<>>]
             ELSE [ok |-> TRUE,
                   events |-> <<Event(match.event_id, StripLine(match.name), d.date,
                                      StripDescription(match.description),
                                      match.location, section)>> \o rest.events]

ParseError == [ok |-> FALSE, frontmatter |-> <<>>, upcoming |-> <<>>, past |-> <<>>]

parse_markdown(content, day) ==
    LET n == Len(content)
        \* the occurrences of "---\n"
        fences == {i \in 1..(n - 1) : content[i] = Fence}
    IN  IF Cardinality(fences) < 2 THEN ParseError
        ELSE LET f1 == Min(fences)
                 f2 == Min(fences \ {f1})
                 frontmatter == SubPublishDate(SubSeq(content, f1 + 1, f2 - 1), day)
                 events_content == SubSeq(content, f2 + 1, n)
                 up == SectionSearch(events_content, "Upcoming Events")
                 pa == SectionSearch(events_content, "Past Events")
             IN  IF ~up.ok \/ ~pa.ok THEN ParseError
                 ELSE LET ue == process_events(FindAll(up.lines, 1), "upcoming")
                          pe == process_events(FindAll(pa.lines, 1), "past")
                      IN  IF ~ue.ok \/ ~pe.ok THEN ParseError
                          ELSE [ok |-> TRUE, frontmatter |-> frontmatter,
                                upcoming |-> ue.events, past |-> pe.events]

----------------------------------------------------------------------------
(* merge_and_generate_markdown *)

\* variant: all_events.setdefault(event["id"], event)
DictSetKeepFirst(d, event) ==
    IF \E i \in DOMAIN d : d[i].id = event.id THEN d ELSE Append(d, event)

\* variant: all_events is a list, all_events.append(event)
DictSetAppend(d, event) == Append(d, event)

\* variant: the key is deleted and inserted again
DictSetMoveToEnd(d, event) ==
    Append(SelectSeq(d, LAMBDA e : e.id # event.id), event)

\* all_events[event["id"]] = event on an insertion-ordered dict, kept as the
\* sequence of its values: an existing key keeps its position
DictSet(d, event) ==
    IF \E i \in DOMAIN d : d[i].id = event.id
    THEN [i \in DOMAIN d |-> IF d[i].id = event.id THEN event ELSE d[i]]
    ELSE Append(d, event)

Recategorize(event, day) == [event EXCEPT !.section = SectionOf(event.date, day)]

\* first loop: existing events, section recomputed
RECURSIVE AddExisting(_, _, _)
AddExisting(d, events, day) ==
    IF events = <<>> THEN d
    ELSE AddExisting(DictSet(d, Recategorize(Head(events), day)), Tail(events), day)

\* second loop: new events
RECURSIVE AddNew(_, _)
AddNew(d, events) ==
    IF events = <<>> THEN d
    ELSE AddNew(DictSet(d, Head(events)), Tail(events))

\* variant: the first loop runs over existing_upcoming_events only
MergeEventsUpcomingOnly(new, existing_upcoming, existing_past, day) ==
    LET seeded == AddExisting(<<>>, existing_upcoming, day)
        merged == AddNew(seeded, new)
    IN  [i \in DOMAIN merged |-> Recategorize(merged[i], day)]

\* the three loops
MergeEvents(new, existing_upcoming, existing_past, day) ==
    LET seeded == AddExisting(<<>>, existing_upcoming \o existing_past, day)
        merged == AddNew(seeded, new)
    IN  [i \in DOMAIN merged |-> Recategorize(merged[i], day)]

\* the f-string of one event
EventBlock(event) ==
    <<event.name, Line("id", event.id), Line("date", FormatDate(event.date)), DescLabel>>
    \o event.description
    \o <<Line("loc", event.location)>>

\* "\n\n".join(blocks of the events of the section)
RECURSIVE JoinSection(_, _)
JoinSection(events, section) ==
    IF events = <<>> THEN <<>>
    ELSE LET rest == JoinSection(Tail(events), section)
         IN  IF Head(events).section = section
             THEN IF rest = <<>> THEN EventBlock(Head(events))
                  ELSE EventBlock(Head(events)) \o <<Blank>> \o rest
             ELSE rest

SectionMd(events, section) ==
    LET md == JoinSection(events, section)
    IN  IF md = <<>> THEN <<Blank>> ELSE md

\* updated_content
RenderDocument(frontmatter, events) ==
    <<Fence>> \o frontmatter
    \o <<Fence, Blank, Heading("Upcoming Events"), Blank>>
    \o SectionMd(events, "upcoming")
    \o <<Blank, Heading("Past Events"), Blank>>
    \o SectionMd(events, "past")
    \o <<Blank>>

merge_and_generate_markdown(frontmatter, new, existing_upcoming, existing_past, day) ==
    RenderDocument(frontmatter, MergeEvents(new, existing_upcoming, existing_past, day))


----------------------------------------------------------------------------
(* Inputs *)

Ids == {"1", "2", "3"}

SeqsUpTo(S, n) == UNION {[1..k -> S] : k \in 0..n}

UniqueIds(events) ==
    \A i, j \in DOMAIN events : events[i].id = events[j].id => i = j

\* events as parse_markdown yields them: the name carries its "## ", the
\* description is paragraphs separated by one blank line
StoredPool ==
    {Event(id, Line("h2", "Alpha"), 0, <<Text("one")>>, "Hall", "") : id \in Ids}
    \cup {Event(id, Line("h2", "Beta"), 1, <<Text("one"), Blank, Text("two")>>, "Room", "") : id \in Ids}

Labelled(events, section) == [i \in DOMAIN events |-> [events[i] EXCEPT !.section = section]]

StoredInputs ==
    {<<Labelled(u, "upcoming"), Labelled(p, "past")>> :
        <<u, p>> \in {pr \in SeqsUpTo(StoredPool, MaxStored) \X SeqsUpTo(StoredPool, MaxStored) :
                        Len(pr[1]) + Len(pr[2]) <= MaxStored}}

\* entries of the scheduled-events response
RawPool ==
    {RawEvent("1", 1, Text(" Meetup "), 0, <<Text("line"), Text("next line")>>, NoneValue),
     RawEvent("1", 1, Text(" Meetup "), 1, <<Text("talk ")>>, NoneValue),
     RawEvent("1", 1, Line("h2", "Alpha"), 1, <<Text("agenda"), Blank, Text("notes")>>, "c1"),
     RawEvent("2", 1, Text("Meetup"), 1, <<Text("talk")>>, NoneValue),
     RawEvent("2", 3, Text("Meetup"), 1, <<Text("talk")>>, NoneValue),
     RawEvent("3", 1, Text("Meetup"), 0, <<Blank>>, NoneValue),
     RawEvent("3", 1, Text("Meetup"), 1, NoDescription, NoneValue)}

Responses ==
    {[ok |-> FALSE, events |-> <<>>]}
    \cup {[ok |-> TRUE, events |-> s] : s \in {t \in SeqsUpTo(RawPool, MaxFetched) : UniqueIds(t)}}

SampleFrontmatter == <<Text("title: Events"), Line("pub", Stamp(0))>>

----------------------------------------------------------------------------
(* Specification SpecMerge: one call of fetch, merge and parse on drawn inputs *)

MainIdle ==
    /\ remote = [content |-> <<>>, sha |-> 0]
    /\ pc = <<>>
    /\ run = <<>>
    /\ hist = [wins |-> <<>>, published |-> {}]

InitMerge ==
    /\ today \in 1..MaxDay
    /\ phase = "input"
    /\ response \in Responses
    /\ \E st \in StoredInputs : stored_upcoming = st[1] /\ stored_past = st[2]
    /\ new_events = <<>>
    /\ all_events = <<>>
    /\ updated_content = <<>>
    /\ reparsed = ParseError
    /\ MainIdle

DoFetch ==
    /\ phase = "input"
    /\ \E chanOk \in BOOLEAN :
         LET r == fetch_discord_events(response, chanOk, today)
         IN  /\ phase' = IF r.ok THEN "fetched" ELSE "crashed"
             /\ new_events' = r.events
    /\ UNCHANGED <<today, response, stored_upcoming, stored_past, all_events,
                   updated_content, reparsed, mainVars>>

DoMerge ==
    /\ phase = "fetched"
    /\ all_events' = MergeEvents(new_events, stored_upcoming, stored_past, today)
    /\ updated_content' = merge_and_generate_markdown(SampleFrontmatter, new_events,
                                                      stored_upcoming, stored_past, today)
    /\ phase' = "merged"
    /\ UNCHANGED <<today, response, new_events, stored_upcoming, stored_past,
                   reparsed, mainVars>>

DoReparse ==
    /\ phase = "merged"
    /\ reparsed' = parse_markdown(updated_content, today)
    /\ phase' = "reparsed"
    /\ UNCHANGED <<today, response, new_events, stored_upcoming, stored_past,
                   all_events, updated_content, mainVars>>

NextMerge == DoFetch \/ DoMerge \/ DoReparse

SpecMerge == InitMerge /\ [][NextMerge]_vars


----------------------------------------------------------------------------
(* Properties of merge_and_generate_markdown (specification SpecMerge) *)

Merged == phase \in {"merged", "reparsed"}

Stored == stored_upcoming \o stored_past

Inputs == Stored \o new_events

Fields(e) == <<e.id, e.name, e.date, e.description, e.location>>

RangeOf(f) == {f[i] : i \in DOMAIN f}

\* the line of the document that carries the heading
HeadingLine(doc, title) == CHOOSE i \in DOMAIN doc : doc[i] = Heading(title)

Region(doc, section) ==
    IF section = "upcoming"
    THEN (HeadingLine(doc, "Upcoming Events") + 1)..(HeadingLine(doc, "Past Events") - 1)
    ELSE (HeadingLine(doc, "Past Events") + 1)..Len(doc)

\* the document shows event e with its ID line at line i
Shows(doc, i, e) ==
    LET n == Len(e.description)
    IN  /\ i > 1 /\ i + 3 + n <= Len(doc)
        /\ doc[i - 1] = e.name
        /\ doc[i] = Line("id", e.id)
        /\ doc[i + 1] = Line("date", DateStr[e.date + 1])
        /\ doc[i + 2] = DescLabel
        /\ SubSeq(doc, i + 3, i + 2 + n) = e.description
        /\ doc[i + 3 + n] = Line("loc", e.location)

ShownUnder(doc, section, e) == \E i \in Region(doc, section) : Shows(doc, i, e)

IdLines(doc, id) == {i \in DOMAIN doc : doc[i] = Line("id", id)}

\* no later stored event carries the id of the k-th stored event
LastOfItsId(k) == \A k2 \in DOMAIN Stored : k2 > k => Stored[k2].id # Stored[k].id

Survives(k) ==
    /\ \E j \in DOMAIN all_events : Fields(all_events[j]) = Fields(Stored[k])
    /\ Stored[k].date < today => ShownUnder(updated_content, "past", Stored[k])

\* C3 as stated: with an empty fetched list every stored event is in the
\* merged output with its id, name, date, description and location unchanged,
\* and a stored event dated before today is shown under "# Past Events".
C3_EveryStoredSurvives ==
    (Merged /\ new_events = <<>>) => \A k \in DOMAIN Stored : Survives(k)

\* C3 amended: with an empty fetched list every stored event whose id no later
\* stored event carries is in the merged output with its five fields
\* unchanged, and is shown under "# Past Events" when dated before today.
C3_LastStoredSurvives ==
    (Merged /\ new_events = <<>>) =>
        \A k \in DOMAIN Stored : LastOfItsId(k) => Survives(k)

\* the events request failed, the stored document holds a past event
C3_Witness ==
    /\ Merged /\ ~response.ok /\ new_events = <<>>
    /\ \E k \in DOMAIN Stored :
         /\ Stored[k].date < today
         /\ LastOfItsId(k)
         /\ ShownUnder(updated_content, "past", Stored[k])
    /\ \E k \in DOMAIN Stored : ~LastOfItsId(k)

\* C4: for an id that is both stored and fetched, the merged record is the
\* fetched record: name, date, description and location are the fetched ones.
C4_OverwriteWins ==
    Merged =>
        \A f \in RangeOf(new_events) :
            (\E k \in DOMAIN Stored : Stored[k].id = f.id) =>
                /\ \E j \in DOMAIN all_events : Fields(all_events[j]) = Fields(f)
                /\ \A j \in DOMAIN all_events :
                     all_events[j].id = f.id => Fields(all_events[j]) = Fields(f)

\* a fetched record replaced a stored record that differs from it in every field
C4_Witness ==
    /\ Merged
    /\ \E f \in RangeOf(new_events) : \E k \in DOMAIN Stored :
         /\ Stored[k].id = f.id
         /\ Stored[k].name # f.name /\ Stored[k].date # f.date
         /\ Stored[k].description # f.description /\ Stored[k].location # f.location
         /\ \E j \in DOMAIN all_events : Fields(all_events[j]) = Fields(f)

\* C5: after merge every record has section upcoming exactly when its date is
\* today or later, else past, whatever label it came with, and the document
\* shows it under the heading of that section and not under the other one.
C5_SectionConsistent ==
    Merged =>
        \A j \in DOMAIN all_events :
            LET e == all_events[j]
            IN  /\ e.section \in {"upcoming", "past"}
                /\ e.section = "upcoming" <=> e.date >= today
                /\ e.date >= today =>
                     /\ ShownUnder(updated_content, "upcoming", e)
                     /\ ~ShownUnder(updated_content, "past", e)
                /\ e.date < today =>
                     /\ ShownUnder(updated_content, "past", e)
                     /\ ~ShownUnder(updated_content, "upcoming", e)

\* a stored event labelled upcoming and dated before today is shown under
\* "# Past Events" with its fields unchanged; one dated today stays upcoming
C5_Witness ==
    /\ Merged
    /\ \E k \in DOMAIN stored_upcoming :
         /\ stored_upcoming[k].section = "upcoming"
         /\ stored_upcoming[k].date < today
         /\ ShownUnder(updated_content, "past", stored_upcoming[k])
         /\ \E j \in DOMAIN all_events :
              /\ Fields(all_events[j]) = Fields(stored_upcoming[k])
              /\ all_events[j].section = "past"
    /\ \E j \in DOMAIN all_events : all_events[j].date = today

\* C8: an id occurs at most once in the merged set and at most once in the
\* document; a fetched event dated today or later whose id is not stored is
\* shown exactly once, under "# Upcoming Events".
C8_IdsUnique ==
    Merged =>
        /\ UniqueIds(all_events)
        /\ \A id \in Ids : Cardinality(IdLines(updated_content, id)) <= 1
        /\ \A f \in RangeOf(new_events) :
             (f.date >= today /\ \A k \in DOMAIN Stored : Stored[k].id # f.id) =>
                /\ Cardinality(IdLines(updated_content, f.id)) = 1
                /\ \A i \in IdLines(updated_content, f.id) :
                     /\ i \in Region(updated_content, "upcoming")
                     /\ Shows(updated_content, i, f)

\* an id stored in both sections, and a fetched-only upcoming event
C8_Witness ==
    /\ Merged
    /\ \E a \in DOMAIN stored_upcoming : \E b \in DOMAIN stored_past :
         stored_upcoming[a].id = stored_past[b].id
    /\ \E f \in RangeOf(new_events) :
         /\ f.date >= today
         /\ \A k \in DOMAIN Stored : Stored[k].id # f.id
         /\ ShownUnder(updated_content, "upcoming", f)

\* where an id first occurs in stored upcoming, stored past, fetched
FirstPos(id) == Min({k \in DOMAIN Inputs : Inputs[k].id = id})

\* C9: within a section the events are in insertion order of the merged map:
\* of two events shown in one section, the one shown first is the one whose
\* id comes first in stored upcoming ++ stored past ++ fetched.
C9_InsertionOrder ==
    Merged =>
        \A section \in {"upcoming", "past"} :
            \A i, j \in Region(updated_content, section) :
                (i < j /\ updated_content[i].k = "id" /\ updated_content[j].k = "id") =>
                    FirstPos(updated_content[i].v) < FirstPos(updated_content[j].v)

\* a fetched event took the place of the stored event of its id, ahead of an
\* event with an earlier date in the same section: the order is not by date
C9_Witness ==
    /\ Merged
    /\ \E a, b \in DOMAIN all_events :
         /\ a < b
         /\ all_events[a].section = all_events[b].section
         /\ all_events[a].date > all_events[b].date
         /\ \E f \in RangeOf(new_events) : Fields(f) = Fields(all_events[a])
         /\ \E k \in DOMAIN Stored : Stored[k].id = all_events[a].id
         /\ \E i, j \in DOMAIN updated_content :
              /\ i < j
              /\ Shows(updated_content, i, all_events[a])
              /\ Shows(updated_content, j, all_events[b])

\* C6 as stated: parsing the rendered document yields the records that were
\* rendered, with identical id, name, date, description and location.
C6_RoundTrip ==
    phase = "reparsed" =>
        /\ reparsed.ok
        /\ {Fields(e) : e \in RangeOf(reparsed.upcoming \o reparsed.past)}
             = {Fields(e) : e \in RangeOf(all_events)}


----------------------------------------------------------------------------
(* Specification Spec: runs of main against the file on GitHub *)

Procs == {1, 2}

\* responses of the scheduled-events request seen by the runs: the request
\* fails, or it yields at most one entry, dated today
MainResponses ==
    {r \in Responses :
        /\ Len(r.events) <= 1
        /\ \A i \in DOMAIN r.events :
             r.events[i].day = 1 /\ r.events[i].channel_id = NoneValue}

StoredAlpha == Event("1", Line("h2", "Alpha"), 0, <<Text("one")>>, "Hall", "past")
StoredBeta == Event("2", Line("h2", "Beta"), 1, <<Text("one"), Blank, Text("two")>>, "Room", "upcoming")

\* a document the script wrote earlier
DocGood == RenderDocument(SampleFrontmatter, <<StoredAlpha, StoredBeta>>)

\* a document without the "# Past Events" heading
DocNoPast ==
    <<Fence>> \o SampleFrontmatter
    \o <<Fence, Blank, Heading("Upcoming Events"), Blank>>
    \o EventBlock(StoredBeta) \o <<Blank>>

\* a document with a date that is not "%b %d, %Y"
DocBadDate ==
    <<Fence>> \o SampleFrontmatter
    \o <<Fence, Blank, Heading("Upcoming Events"), Blank,
         Line("h2", "Beta"), Line("id", "2"), Line("date", "2024-01-02"), DescLabel,
         Text("one"), Line("loc", "Room"),
         Blank, Heading("Past Events"), Blank, Blank, Blank>>

InitDocs == {DocGood, DocNoPast, DocBadDate}

FreshRun(n) ==
    [n |-> n, new_events |-> <<>>, content |-> <<>>, sha |-> 0,
     frontmatter |-> <<>>, existing_upcoming |-> <<>>, existing_past |-> <<>>,
     updated_content |-> <<>>,
     stages |-> {},      \* the stages of this run that returned
     reads |-> 0,        \* calls of get_github_file in this run
     calls |-> 0,        \* calls of update_github_file in this run
     failure |-> ""]     \* what the except clause of main caught

PureIdle ==
    /\ phase = "main"
    /\ response = [ok |-> FALSE, events |-> <<>>]
    /\ new_events = <<>>
    /\ stored_upcoming = <<>>
    /\ stored_past = <<>>
    /\ all_events = <<>>
    /\ updated_content = <<>>
    /\ reparsed = ParseError

Init ==
    /\ today = 1
    /\ remote \in {[content |-> d, sha |-> 1] : d \in InitDocs}
    /\ pc = [p \in Procs |-> "fetch"]
    /\ run = [p \in Procs |-> FreshRun(1)]
    /\ hist = [wins |-> <<>>, published |-> {}]
    /\ PureIdle

\* line 179: new_events = fetch_discord_events(...), outside the try
Fetch(p) ==
    /\ pc[p] = "fetch"
    /\ \E resp \in MainResponses, chanOk \in BOOLEAN :
         LET r == fetch_discord_events(resp, chanOk, today)
         IN  IF r.ok
             THEN /\ run' = [run EXCEPT ![p].new_events = r.events,
                                        ![p].stages = @ \cup {"fetch"}]
                  /\ pc' = [pc EXCEPT ![p] = "read"]
             ELSE /\ pc' = [pc EXCEPT ![p] = "crashed"]
                  /\ UNCHANGED run
    /\ UNCHANGED <<today, pureVars, remote, hist>>

\* line 181: get_github_file; it raises when the request fails
Read(p) ==
    /\ pc[p] = "read"
    /\ \/ /\ run' = [run EXCEPT ![p].content = remote.content,
                                ![p].sha = remote.sha,
                                ![p].reads = @ + 1,
                                ![p].stages = @ \cup {"read"}]
          /\ pc' = [pc EXCEPT ![p] = "parse"]
       \/ /\ run' = [run EXCEPT ![p].reads = @ + 1, ![p].failure = "read"]
          /\ pc' = [pc EXCEPT ![p] = "failed"]
    /\ UNCHANGED <<today, pureVars, remote, hist>>

\* variant: a document that does not parse is taken as a document without events
ParseLenient(p) ==
    /\ pc[p] = "parse"
    /\ LET r == parse_markdown(run[p].content, today)
       IN  /\ run' = [run EXCEPT ![p].frontmatter = r.frontmatter,
                                 ![p].existing_upcoming = r.upcoming,
                                 ![p].existing_past = r.past,
                                 ![p].stages = IF r.ok THEN @ \cup {"parse"} ELSE @]
           /\ pc' = [pc EXCEPT ![p] = "merge"]
    /\ UNCHANGED <<today, pureVars, remote, hist>>

\* lines 182-184: parse_markdown
Parse(p) ==
    /\ pc[p] = "parse"
    /\ LET r == parse_markdown(run[p].content, today)
       IN  IF r.ok
           THEN /\ run' = [run EXCEPT ![p].frontmatter = r.frontmatter,
                                      ![p].existing_upcoming = r.upcoming,
                                      ![p].existing_past = r.past,
                                      ![p].stages = @ \cup {"parse"}]
                /\ pc' = [pc EXCEPT ![p] = "merge"]
           ELSE /\ run' = [run EXCEPT ![p].failure = "parse"]
                /\ pc' = [pc EXCEPT ![p] = "failed"]
    /\ UNCHANGED <<today, pureVars, remote, hist>>

\* lines 185-187: merge_and_generate_markdown
Merge(p) ==
    /\ pc[p] = "merge"
    /\ run' = [run EXCEPT ![p].updated_content =
                              merge_and_generate_markdown(run[p].frontmatter, run[p].new_events,
                                  run[p].existing_upcoming, run[p].existing_past, today),
                          ![p].stages = @ \cup {"merge"}]
    /\ pc' = [pc EXCEPT ![p] = "write"]
    /\ UNCHANGED <<today, pureVars, remote, hist>>

Commit(p) ==
    /\ remote' = [content |-> run[p].updated_content, sha |-> remote.sha + 1]
    /\ run' = [run EXCEPT ![p].calls = @ + 1, ![p].stages = @ \cup {"write"}]
    /\ pc' = [pc EXCEPT ![p] = "done"]
    /\ hist' = [wins |-> Append(hist.wins, [p |-> p, sha |-> run[p].sha]),
                published |-> hist.published \cup {e.id : e \in RangeOf(run[p].new_events)}]

Reject(p, why) ==
    /\ run' = [run EXCEPT ![p].calls = @ + 1, ![p].failure = why]
    /\ pc' = [pc EXCEPT ![p] = "failed"]
    /\ UNCHANGED <<remote, hist>>

\* variant: the file is written whatever sha the run holds
WriteUnchecked(p) ==
    /\ pc[p] = "write"
    /\ \/ Commit(p)
       \/ Reject(p, "write")
    /\ UNCHANGED <<today, pureVars>>

\* line 188: update_github_file(REPO, FILE_PATH, updated_content, sha, PAT);
\* repo.update_file raises when sha is not the sha of the file on the branch
\* (the sha stands for the file's revision: every write gives the file a new
\* one), and when the request fails
Write(p) ==
    /\ pc[p] = "write"
    /\ \/ /\ run[p].sha = remote.sha
          /\ Commit(p)
       \/ /\ run[p].sha # remote.sha
          /\ Reject(p, "conflict")
       \/ Reject(p, "write")
    /\ UNCHANGED <<today, pureVars>>

\* the script is started again
Restart(p) ==
    /\ pc[p] \in {"done", "failed", "crashed"}
    /\ run[p].n < MaxRuns
    /\ run' = [run EXCEPT ![p] = FreshRun(run[p].n + 1)]
    /\ pc' = [pc EXCEPT ![p] = "fetch"]
    /\ UNCHANGED <<today, pureVars, remote, hist>>

main(p) == Fetch(p) \/ Read(p) \/ Parse(p) \/ Merge(p) \/ Write(p)

Next == \E p \in Procs : main(p) \/ Restart(p)

Spec == Init /\ [][Next]_vars


----------------------------------------------------------------------------
(* Properties of main (specification Spec) *)

BeforeWrite == {"read", "parse", "merge"}

\* C1: in one run update_github_file is called at most once, and only after
\* read, parse and merge (which renders) have returned; a run in which one of
\* them failed never calls it; the file on GitHub changes only in a step that
\* is such a call.
C1_WriteOnlyAfterPipeline ==
    /\ [](\A p \in Procs :
            /\ run[p].calls <= 1
            /\ run[p].calls = 1 => BeforeWrite \subseteq run[p].stages
            /\ run[p].failure \in {"read", "parse"} => run[p].calls = 0)
    /\ [][remote' # remote =>
            \E p \in Procs :
                /\ BeforeWrite \subseteq run[p].stages
                /\ run[p].calls = 0 /\ run'[p].calls = 1
                /\ \A q \in Procs \ {p} : run'[q] = run[q]]_vars

\* the stored document has no "# Past Events" heading: parse failed, nothing
\* was written, the document is as it was; the other run wrote nothing either
C1_Witness ==
    /\ remote = [content |-> DocNoPast, sha |-> 1]
    /\ \E p \in Procs :
         /\ pc[p] = "failed"
         /\ run[p].failure = "parse"
         /\ "read" \in run[p].stages
         /\ run[p].calls = 0
         /\ run[p].n = MaxRuns

\* C2 as stated: no exception leaves main uncaught, at whatever stage it is
\* raised.
C2_NothingEscapes == \A p \in Procs : pc[p] # "crashed"

RejectedNow(p) == pc[p] = "write" /\ run[p].sha # remote.sha

\* C7: of the runs that read the document at one sha at most one writes it;
\* the write of a run whose sha is no longer the file's is rejected and
\* leaves the file as it is; a run reads once and calls the write once.
C7_OneWriterPerToken ==
    /\ [](/\ \A i, j \in DOMAIN hist.wins :
               hist.wins[i].sha = hist.wins[j].sha => i = j
          /\ \A p \in Procs : run[p].reads <= 1 /\ run[p].calls <= 1
          /\ \A p \in Procs :
               run[p].failure = "conflict" =>
                   pc[p] = "failed" /\ run[p].reads = 1 /\ run[p].calls = 1)
    /\ [][\A p \in Procs :
            (RejectedNow(p) /\ pc'[p] # pc[p]) =>
                pc'[p] = "failed" /\ remote' = remote]_vars

\* two runs read at the same sha; one wrote, the other's write was rejected,
\* and the file is the winner's
C7_Witness ==
    \E p, q \in Procs :
        /\ p # q
        /\ run[p].sha = run[q].sha /\ run[p].reads = 1 /\ run[q].reads = 1
        /\ pc[p] = "done" /\ pc[q] = "failed" /\ run[q].failure = "conflict"
        /\ remote.content = run[p].updated_content
        /\ run[q].updated_content # run[p].updated_content
        /\ remote.sha = run[p].sha + 1

\* C10 as stated: an event that a successful run fetched and wrote is in the
\* document after every later successful run.
C10_PublishedStay ==
    \A id \in hist.published : IdLines(remote.content, id) # {}


====
